---- MODULE Spec2Model ----
(***************************************************************************)
(* Model of scripts/workflow/merge_all_prs.py: the sequential, fail-stop   *)
(* merge session.  One session is a record (the locals of main() and of    *)
(* the function it is currently in, plus history fields); the variable     *)
(* `run` holds the sessions that are driven by the same gateway responses: *)
(* one session under Spec, a live session and a dry-run twin under         *)
(* SpecPair.                                                               *)
(***************************************************************************)
EXTENDS Integers, Sequences, FiniteSets, TLC

VARIABLE run

vars == <<run>>

(***************************************************************************)
(* Bounds of the model.                                                    *)
(***************************************************************************)
\* largest number of change requests the list call returns
MaxPRs == 2
\* largest number of check runs attached to one change request
MaxChecks == 2
\* --timeout, in minutes (the default of 30 is out of reach of the check)
TimeoutMinutes == 1

(***************************************************************************)
(* Program constants.                                                      *)
(***************************************************************************)
poll_interval == 30
SecondsPerMinute == 60

PRNumbers == 101 .. (100 + MaxPRs)

\* a dict key that is not there
Absent == "<absent>"
\* dict.get(key, default)
Get(d, k, default) == IF k \in DOMAIN d THEN d[k] ELSE default

SessionLabel == "session:2026-01-20"

(***************************************************************************)
(* What the gateway (gh, git) can answer.                                  *)
(***************************************************************************)
ExitCodes == {0, 1}

\* gh pr list: summaries in any order, each number once
ListedPR == [number : PRNumbers, labels : {{}, {SessionLabel}}]
ListedSeqs ==
    {q \in UNION {[1 .. n -> ListedPR] : n \in 0 .. MaxPRs} :
        \A a, b \in DOMAIN q : a # b => q[a].number # q[b].number}
ListResponses ==
    {[code |-> 1, parses |-> TRUE, prs |-> <<>>],
     [code |-> 0, parses |-> FALSE, prs |-> <<>>]}
    \cup {[code |-> 0, parses |-> TRUE, prs |-> q] : q \in ListedSeqs}

\* gh pr view: the requested keys, or a failure
DetailRecords ==
    [isDraft : BOOLEAN,
     state : {"OPEN", "MERGED"},
     mergeStateStatus : {"CLEAN", "BEHIND", "DIRTY", "UNKNOWN"},
     mergeable : {"MERGEABLE", "CONFLICTING"},
     reviewDecision : {"APPROVED", "CHANGES_REQUESTED", "REVIEW_REQUIRED", ""}]
DetailResponses ==
    {[code |-> 1, parses |-> TRUE, json |-> <<>>],
     [code |-> 0, parses |-> FALSE, json |-> <<>>]}
    \cup {[code |-> 0, parses |-> TRUE, json |-> d] : d \in DetailRecords}

\* gh pr update-branch: exit code and stderr
ConflictTexts == {"CONFLICT (content): Merge conflict in app.py"}
OtherTexts == {"HTTP 403: Resource not accessible"}
UpdateResponses ==
    {[code |-> 0, stderr |-> ""]}
    \cup {[code |-> 1, stderr |-> t] : t \in ConflictTexts \cup OtherTexts}

\* gh pr checks: check runs named by their position
CheckNames == <<"build", "test", "lint", "docs">>
RunStates ==
    {[state |-> "PENDING", conclusion |-> ""],
     [state |-> "IN_PROGRESS", conclusion |-> ""]}
    \cup {[state |-> "COMPLETED", conclusion |-> c] :
            c \in {"SUCCESS", "FAILURE", "ERROR", "CANCELLED", "TIMED_OUT"}}
NamedChecks(f) ==
    [k \in DOMAIN f |->
        [name |-> CheckNames[k], state |-> f[k].state, conclusion |-> f[k].conclusion]]
CheckLists ==
    UNION {{NamedChecks(f) : f \in [1 .. n -> RunStates]} : n \in 0 .. MaxChecks}
CheckResponses ==
    {[code |-> 1, parses |-> TRUE, checks |-> <<>>],
     [code |-> 0, parses |-> FALSE, checks |-> <<>>]}
    \cup {[code |-> 0, parses |-> TRUE, checks |-> c] : c \in CheckLists}
\* gh pr merge
MergeOk == [code |-> 0, stderr |-> ""]
MergeResponses == {MergeOk, [code |-> 1, stderr |-> "Pull request is not mergeable"]}

\* git fetch, git rev-parse, gh run list --limit 1
PipelineRuns ==
    [status : {"completed", "in_progress", "queued"},
     conclusion : {"success", "failure", "cancelled", "timed_out", "skipped", ""}]
HealthResponses ==
    [fetch : ExitCodes,
     revparse : ExitCodes,
     list : {[code |-> 1, parses |-> TRUE, runs |-> <<>>],
             [code |-> 0, parses |-> FALSE, runs |-> <<>>],
             [code |-> 0, parses |-> TRUE, runs |-> <<>>]}
            \cup {[code |-> 0, parses |-> TRUE, runs |-> <<r>>] : r \in PipelineRuns}]

\* Path.mkdir / Path.write_text
WriteResults == {"written", "OSError"}

(***************************************************************************)
(* The functions of the script.  A function that talks to the gateway is   *)
(* given the gateway's answer and returns its return value together with   *)
(* the calls it made (<<command, change request or 0>>).                   *)
(***************************************************************************)

\* sorted(prs, key=number): insertion into a sorted sequence
RECURSIVE SortByNumber(_)
SortByNumber(q) ==
    IF q = <<>> THEN <<>>
    ELSE LET rest == SortByNumber(Tail(q))
             lower == SelectSeq(rest, LAMBDA p : p.number < Head(q).number)
             upper == SelectSeq(rest, LAMBDA p : ~(p.number < Head(q).number))
         IN  lower \o <<Head(q)>> \o upper

check_gh_auth(resp) == [ok |-> resp = 0, calls |-> <<<<"gh auth status", 0>>>>]

check_clean_working_tree(resp) ==
    [ok |-> resp.code = 0 /\ resp.clean, calls |-> <<<<"git status", 0>>>>]

fetch_origin(resp) == [ok |-> resp = 0, calls |-> <<<<"git fetch", 0>>>>]

\* faulty variant of get_open_prs: the listed order is kept
get_open_prs_unsorted(session, resp) ==
    LET listed == IF resp.code # 0 \/ ~resp.parses THEN <<>> ELSE resp.prs
        kept == IF session # ""
                THEN SelectSeq(listed, LAMBDA p : session \in p.labels)
                ELSE listed
    IN  [prs |-> kept, calls |-> <<<<"gh pr list", 0>>>>]

get_open_prs(session, resp) ==
    LET listed == IF resp.code # 0 \/ ~resp.parses THEN <<>> ELSE resp.prs
        kept == IF session # ""
                THEN SelectSeq(listed, LAMBDA p : session \in p.labels)
                ELSE listed
    IN  [prs |-> SortByNumber(kept), calls |-> <<<<"gh pr list", 0>>>>]

get_pr_details(pr_number, resp) ==
    [details |-> IF resp.code # 0 \/ ~resp.parses THEN <<>> ELSE resp.json,
     calls |-> <<<<"gh pr view", pr_number>>>>]

FailureConclusions == {"FAILURE", "ERROR", "CANCELLED", "TIMED_OUT"}

\* faulty variant of get_check_status: pending is tested before failure
get_check_status_pending_first(pr_number, resp) ==
    LET checks == resp.checks
        has_pending == \E k \in DOMAIN checks :
                          checks[k].state = "PENDING" \/ checks[k].state = "IN_PROGRESS"
        has_failure == \E k \in DOMAIN checks :
                          checks[k].conclusion \in FailureConclusions
        status == IF resp.code # 0 \/ ~resp.parses THEN "UNKNOWN"
                  ELSE IF checks = <<>> THEN "SUCCESS"
                  ELSE IF has_pending THEN "PENDING"
                  ELSE IF has_failure THEN "FAILURE"
                  ELSE "SUCCESS"
    IN  [status |-> status,
         checks |-> IF status = "UNKNOWN" THEN <<>> ELSE checks,
         calls |-> <<<<"gh pr checks", pr_number>>>>]

\* faulty variant of get_check_status: a check that is IN_PROGRESS is not pending
get_check_status_in_progress_passes(pr_number, resp) ==
    LET checks == resp.checks
        has_pending == \E k \in DOMAIN checks : checks[k].state = "PENDING"
        has_failure == \E k \in DOMAIN checks :
                          checks[k].conclusion \in FailureConclusions
        status == IF resp.code # 0 \/ ~resp.parses THEN "UNKNOWN"
                  ELSE IF checks = <<>> THEN "SUCCESS"
                  ELSE IF has_failure THEN "FAILURE"
                  ELSE IF has_pending THEN "PENDING"
                  ELSE "SUCCESS"
    IN  [status |-> status,
         checks |-> IF status = "UNKNOWN" THEN <<>> ELSE checks,
         calls |-> <<<<"gh pr checks", pr_number>>>>]

\* faulty variant of get_check_status: a failed query reads as no checks required
get_check_status_error_is_success(pr_number, resp) ==
    LET checks == resp.checks
        has_pending == \E k \in DOMAIN checks :
                          checks[k].state = "PENDING" \/ checks[k].state = "IN_PROGRESS"
        has_failure == \E k \in DOMAIN checks :
                          checks[k].conclusion \in FailureConclusions
        status == IF checks = <<>> THEN "SUCCESS"
                  ELSE IF has_failure THEN "FAILURE"
                  ELSE IF has_pending THEN "PENDING"
                  ELSE "SUCCESS"
    IN  [status |-> status,
         checks |-> checks,
         calls |-> <<<<"gh pr checks", pr_number>>>>]

get_check_status(pr_number, resp) ==
    LET checks == resp.checks
        has_pending == \E k \in DOMAIN checks :
                          checks[k].state = "PENDING" \/ checks[k].state = "IN_PROGRESS"
        has_failure == \E k \in DOMAIN checks :
                          checks[k].conclusion \in FailureConclusions
        status == IF resp.code # 0 \/ ~resp.parses THEN "UNKNOWN"
                  ELSE IF checks = <<>> THEN "SUCCESS"
                  ELSE IF has_failure THEN "FAILURE"
                  ELSE IF has_pending THEN "PENDING"
                  ELSE "SUCCESS"
    IN  [status |-> status,
         checks |-> IF status = "UNKNOWN" THEN <<>> ELSE checks,
         calls |-> <<<<"gh pr checks", pr_number>>>>]

\* the names the failure message of wait_for_checks lists:
\* [c["name"] for c in checks if c.get("conclusion") in ("FAILURE", "ERROR")]
RECURSIVE FailedNames(_)
FailedNames(checks) ==
    IF checks = <<>> THEN <<>>
    ELSE (IF Head(checks).conclusion \in {"FAILURE", "ERROR"}
          THEN <<Head(checks).name>> ELSE <<>>)
         \o FailedNames(Tail(checks))

\* str.lower() on the texts the gateway writes to stderr
Lower(t) ==
    CASE t = "CONFLICT (content): Merge conflict in app.py" ->
           "conflict (content): merge conflict in app.py"
      [] t = "HTTP 403: Resource not accessible" -> "http 403: resource not accessible"
      [] OTHER -> t
\* "conflict" in text
ContainsConflict(t) == t \in {"conflict (content): merge conflict in app.py"}

\* faulty variant of update_pr_branch: "conflict" is looked for in stderr as it is
update_pr_branch_case_sensitive(pr_number, resp) ==
    [success |-> resp.code = 0,
     msg |-> IF resp.code = 0 THEN <<"Branch updated successfully">>
             ELSE IF ContainsConflict(resp.stderr)
                  THEN <<"Merge conflicts detected - manual resolution required">>
                  ELSE <<"Failed to update branch: ", resp.stderr>>,
     calls |-> <<<<"gh pr update-branch", pr_number>>>>]

update_pr_branch(pr_number, resp) ==
    [success |-> resp.code = 0,
     msg |-> IF resp.code = 0 THEN <<"Branch updated successfully">>
             ELSE IF ContainsConflict(Lower(resp.stderr))
                  THEN <<"Merge conflicts detected - manual resolution required">>
                  ELSE <<"Failed to update branch: ", resp.stderr>>,
     calls |-> <<<<"gh pr update-branch", pr_number>>>>]

\* faulty variant of check_review_approval: REVIEW_REQUIRED does not block
check_review_approval_required_passes(pr) ==
    LET decision == Get(pr, "reviewDecision", "")
    IN  IF decision = "APPROVED" THEN [approved |-> TRUE, msg |-> <<"PR approved">>]
        ELSE IF decision = "CHANGES_REQUESTED"
             THEN [approved |-> FALSE,
                   msg |-> <<"Changes requested - needs update and re-approval">>]
        ELSE [approved |-> TRUE, msg |-> <<"No review requirement or already approved">>]

check_review_approval(pr) ==
    LET decision == Get(pr, "reviewDecision", "")
    IN  IF decision = "APPROVED" THEN [approved |-> TRUE, msg |-> <<"PR approved">>]
        ELSE IF decision = "CHANGES_REQUESTED"
             THEN [approved |-> FALSE,
                   msg |-> <<"Changes requested - needs update and re-approval">>]
        ELSE IF decision = "REVIEW_REQUIRED"
             THEN [approved |-> FALSE, msg |-> <<"Review required - needs approval">>]
        ELSE [approved |-> TRUE, msg |-> <<"No review requirement or already approved">>]

\* faulty variant of merge_pr: the dry-run test is missing
merge_pr_ignores_dry_run(pr_number, dry_run, resp) ==
    [success |-> resp.code = 0,
     msg |-> IF resp.code = 0 THEN <<"PR merged successfully">>
             ELSE <<"Merge failed: ", resp.stderr>>,
     calls |-> <<<<"gh pr merge", pr_number>>>>]

merge_pr(pr_number, dry_run, resp) ==
    IF dry_run
    THEN [success |-> TRUE, msg |-> <<"[DRY RUN] Would merge PR">>, calls |-> <<>>]
    ELSE [success |-> resp.code = 0,
          msg |-> IF resp.code = 0 THEN <<"PR merged successfully">>
                  ELSE <<"Merge failed: ", resp.stderr>>,
          calls |-> <<<<"gh pr merge", pr_number>>>>]

\* faulty variant of verify_main_health: only the conclusion "failure" is unhealthy
verify_main_health_failure_only(resp) ==
    LET first == <<<<"git fetch", 0>>, <<"git rev-parse", 0>>>>
        all == first \o <<<<"gh run list", 0>>>>
        latest == resp.list.runs[1]
    IN  IF resp.revparse # 0 THEN [healthy |-> FALSE, calls |-> first]
        ELSE IF resp.list.code # 0 \/ ~resp.list.parses \/ resp.list.runs = <<>>
             THEN [healthy |-> TRUE, calls |-> all]
        ELSE IF latest.status = "completed"
             THEN [healthy |-> latest.conclusion # "failure", calls |-> all]
        ELSE [healthy |-> TRUE, calls |-> all]

\* the result of the fetch at line 282 is not looked at
verify_main_health(resp) ==
    LET first == <<<<"git fetch", 0>>, <<"git rev-parse", 0>>>>
        all == first \o <<<<"gh run list", 0>>>>
        latest == resp.list.runs[1]
    IN  IF resp.revparse # 0 THEN [healthy |-> FALSE, calls |-> first]
        ELSE IF resp.list.code # 0 \/ ~resp.list.parses \/ resp.list.runs = <<>>
             THEN [healthy |-> TRUE, calls |-> all]
        ELSE IF latest.status = "completed"
             THEN [healthy |-> latest.conclusion = "success", calls |-> all]
        ELSE [healthy |-> TRUE, calls |-> all]

(***************************************************************************)
(* One session: the locals of main() and of wait_for_checks(), the exit    *)
(* status and the report files written, and three history fields: `made`,  *)
(* the gateway calls of the latest step, `calls`, the set of all gateway   *)
(* calls made so far, and `halted` and `fatal`, the queue position at      *)
(* which a `break` left the merge loop (0: none so far) and the condition  *)
(* that led to it, and `preflight`, the results of the preflight checks    *)
(* made so far, and `drafts`, the queue positions of the items whose first *)
(* fetch answered with isDraft true, and `raised`, the exception that ended *)
(* the process ("": none).  `host` is the set of the change requests whose  *)
(* lifecycle state on the host is MERGED; it outlives the session (see     *)
(* SpecRestart).  `seen` is what the gateway has answered about the item    *)
(* the loop is at.  `clock` is the time slept since wait_for_checks took   *)
(* start_time; a gateway call takes no time on it.  `healthy` is the       *)
(* latest answer of verify_main_health (TRUE before the first one).        *)
(***************************************************************************)
NoExit == -1

\* what the gateway has answered about the current item: whether its first
\* gh pr view succeeded and showed a draft or a merged item; whether its latest
\* gh pr view showed a merge conflict or a blocking review (a failed one shows
\* neither); the
\* aggregate of its latest gh pr checks; the answer of its gh pr update-branch
NoneSeen ==
    [asked |-> FALSE, fetched |-> FALSE, draft |-> FALSE, merged |-> FALSE,
     conflict |-> FALSE, blocking |-> FALSE, polled |-> "", update |-> <<>>]

ShowsConflict(d) ==
    Get(d, "mergeStateStatus", "UNKNOWN") = "DIRTY" \/ Get(d, "mergeable", "UNKNOWN") = "CONFLICTING"

ShowsBlockingReview(d) ==
    Get(d, "reviewDecision", "") \in {"CHANGES_REQUESTED", "REVIEW_REQUIRED"}

SeenFirst(d) ==
    [NoneSeen EXCEPT !.asked = TRUE,
                     !.fetched = d # <<>>,
                     !.draft = Get(d, "isDraft", FALSE),
                     !.merged = Get(d, "state", Absent) = "MERGED",
                     !.conflict = ShowsConflict(d),
                     !.blocking = ShowsBlockingReview(d)]

SeenAgain(seen, d) ==
    [seen EXCEPT !.conflict = ShowsConflict(d), !.blocking = ShowsBlockingReview(d)]

Limits == {0, 1}

Args == [dry_run : BOOLEAN, session : {"", SessionLabel}, limit : Limits,
         timeout : {TimeoutMinutes}]

NewSession(args) ==
    [args |-> args, pc |-> "check_gh_auth",
     prs |-> <<>>, i |-> 0, merged |-> <<>>, skipped |-> <<>>,
     details |-> <<>>, merge_state |-> Absent, mergeable |-> Absent,
     clock |-> 0, elapsed |-> 0, status |-> Absent, checks |-> <<>>,
     healthy |-> TRUE,
     exit_code |-> NoExit, reports |-> <<>>,
     made |-> <<>>, calls |-> {}, halted |-> 0, fatal |-> "", preflight |-> <<>>,
     drafts |-> {}, raised |-> "", host |-> {}, seen |-> NoneSeen, found |-> {}]

Called(x, calls) ==
    [x EXCEPT !.made = @ \o calls, !.calls = @ \cup {calls[k] : k \in DOMAIN calls}]

\* a step starts with no call made yet
Begin(x) == [x EXCEPT !.made = <<>>]

\* sys.exit(code)
Exit(x, code) == [x EXCEPT !.pc = "exit", !.exit_code = code]

\* details, merge_state and mergeable are not read after line 613 before line 559
\* assigns them anew: the model forgets them when wait_for_checks is entered, when
\* the loop takes its next item and when the loop is left
DropItemLocals(x) ==
    [x EXCEPT !.details = <<>>, !.merge_state = Absent, !.mergeable = Absent]

\* after the loop nothing of the last item is kept
LoopOver(x) == [DropItemLocals(x) EXCEPT !.seen = NoneSeen]

\* the frame of wait_for_checks is gone when it returns
DropPollLocals(x) ==
    [x EXCEPT !.clock = 0, !.elapsed = 0, !.status = Absent, !.checks = <<>>]

\* pr['reason'] = reason; skipped.append(pr)
Skip(x, reason) ==
    LET pr == [x.prs[x.i] EXCEPT !.reason = reason]
    IN  [x EXCEPT !.prs[x.i] = pr, !.skipped = Append(@, pr)]

\* continue
Continue(x) == [x EXCEPT !.pc = "for"]

\* faulty variant of Break: `continue` written where `break` is meant
Break_continues(x, why) == [x EXCEPT !.pc = "for", !.halted = x.i, !.fatal = why]

\* break, on the fatal condition `why`
Break(x, why) == [x EXCEPT !.pc = "generate_report", !.halted = x.i, !.fatal = why]

\* the result of a preflight check, as main() gets it
Checked(x, r) == [Called(x, r.calls) EXCEPT !.preflight = Append(@, r.ok)]

\* lines 507-511
main_check_gh_auth(x, resp) ==
    LET r == check_gh_auth(resp)
    IN  IF ~r.ok THEN Exit(Checked(x, r), 1)
        ELSE [Checked(x, r) EXCEPT !.pc = "check_clean_working_tree"]

\* lines 513-517
main_check_clean_working_tree(x, resp) ==
    LET r == check_clean_working_tree(resp)
    IN  IF ~r.ok THEN Exit(Checked(x, r), 1)
        ELSE [Checked(x, r) EXCEPT !.pc = "fetch_origin"]

\* faulty variant of main_fetch_origin: the result of the fetch is not looked at
main_fetch_origin_unchecked(x, resp) ==
    LET r == fetch_origin(resp)
    IN  [Checked(x, r) EXCEPT !.pc = "get_open_prs"]

\* lines 519-523
main_fetch_origin(x, resp) ==
    LET r == fetch_origin(resp)
    IN  IF ~r.ok THEN Exit(Checked(x, r), 1)
        ELSE [Checked(x, r) EXCEPT !.pc = "get_open_prs"]

\* the dict of one listed change request, as far as main() uses it
QueuedPR(p) == [number |-> p.number, reason |-> <<>>, result |-> Absent]

\* faulty variant of main_get_open_prs: the limit keeps the end of the list
main_get_open_prs_keeps_last(x, resp) ==
    LET r == get_open_prs(x.args.session, resp)
        found == [k \in DOMAIN r.prs |-> QueuedPR(r.prs[k])]
        prs == IF x.args.limit # 0 /\ Len(found) > x.args.limit
               THEN SubSeq(found, Len(found) - x.args.limit + 1, Len(found))
               ELSE found
    IN  IF found = <<>> THEN Exit(Called(x, r.calls), 0)
        ELSE [Called(x, r.calls) EXCEPT !.prs = prs, !.found = {found[k].number : k \in DOMAIN found},
                                        !.pc = "for"]

\* faulty variant of main_get_open_prs: an empty discovery enters the loop
main_get_open_prs_empty_goes_on(x, resp) ==
    LET r == get_open_prs(x.args.session, resp)
        found == [k \in DOMAIN r.prs |-> QueuedPR(r.prs[k])]
        prs == IF x.args.limit # 0 /\ Len(found) > x.args.limit
               THEN SubSeq(found, 1, x.args.limit)
               ELSE found
    IN  [Called(x, r.calls) EXCEPT !.prs = prs, !.found = {found[k].number : k \in DOMAIN found},
                                   !.pc = "for"]

\* lines 527-545
main_get_open_prs(x, resp) ==
    LET r == get_open_prs(x.args.session, resp)
        found == [k \in DOMAIN r.prs |-> QueuedPR(r.prs[k])]
        prs == IF x.args.limit # 0 /\ Len(found) > x.args.limit
               THEN SubSeq(found, 1, x.args.limit)
               ELSE found
    IN  IF found = <<>> THEN Exit(Called(x, r.calls), 0)
        ELSE [Called(x, r.calls) EXCEPT !.prs = prs, !.found = {found[k].number : k \in DOMAIN found},
                                        !.pc = "for"]

\* line 548: the next item of the queue, or the end of the loop
main_for(x) ==
    IF x.i < Len(x.prs)
    THEN [DropItemLocals(x) EXCEPT !.i = x.i + 1, !.seen = NoneSeen,
                                   !.pc = "get_pr_details"]
    ELSE [DropItemLocals(x) EXCEPT !.seen = NoneSeen, !.pc = "generate_report"]

\* line 559
main_get_pr_details(x, resp) ==
    LET r == get_pr_details(x.prs[x.i].number, resp)
    IN  [Called(x, r.calls) EXCEPT
            !.details = r.details,
            !.drafts = IF Get(r.details, "isDraft", FALSE) THEN @ \cup {x.i} ELSE @,
            !.seen = SeenFirst(r.details),
            !.pc = "classify"]

\* faulty variant of main_classify: a draft is passed over without skipped.append
main_classify_unrecorded(x) ==
    IF x.details = <<>>
    THEN Continue(Skip(x, <<"Failed to fetch PR details">>))
    ELSE IF Get(x.details, "isDraft", FALSE)
    THEN Continue(x)
    ELSE IF Get(x.details, "state", Absent) = "MERGED"
    THEN Continue(Skip(x, <<"Already merged">>))
    ELSE LET merge_state == Get(x.details, "mergeStateStatus", "UNKNOWN")
             mergeable == Get(x.details, "mergeable", "UNKNOWN")
         IN  [x EXCEPT !.merge_state = merge_state, !.mergeable = mergeable,
                       !.pc = IF merge_state = "BEHIND" THEN "update_pr_branch"
                              ELSE "evaluate"]

\* faulty variant of main_classify: the conflict test comes before the draft test
main_classify_conflict_first(x) ==
    IF x.details = <<>>
    THEN Continue(Skip(x, <<"Failed to fetch PR details">>))
    ELSE IF Get(x.details, "mergeStateStatus", "UNKNOWN") = "DIRTY"
    THEN Break(Skip(x, <<"Merge conflicts - manual resolution required">>), "conflict")
    ELSE IF Get(x.details, "isDraft", FALSE)
    THEN Continue(Skip(x, <<"PR is a draft">>))
    ELSE IF Get(x.details, "state", Absent) = "MERGED"
    THEN Continue(Skip(x, <<"Already merged">>))
    ELSE LET merge_state == Get(x.details, "mergeStateStatus", "UNKNOWN")
             mergeable == Get(x.details, "mergeable", "UNKNOWN")
         IN  [x EXCEPT !.merge_state = merge_state, !.mergeable = mergeable,
                       !.pc = IF merge_state = "BEHIND" THEN "update_pr_branch"
                              ELSE "evaluate"]

\* faulty variant of main_classify: the lifecycle state is not looked at
main_classify_merged_unchecked(x) ==
    IF x.details = <<>>
    THEN Continue(Skip(x, <<"Failed to fetch PR details">>))
    ELSE IF Get(x.details, "isDraft", FALSE)
    THEN Continue(Skip(x, <<"PR is a draft">>))
    ELSE LET merge_state == Get(x.details, "mergeStateStatus", "UNKNOWN")
             mergeable == Get(x.details, "mergeable", "UNKNOWN")
         IN  [x EXCEPT !.merge_state = merge_state, !.mergeable = mergeable,
                       !.pc = IF merge_state = "BEHIND" THEN "update_pr_branch"
                              ELSE "evaluate"]

\* faulty variant of main_classify: a failed fetch ends the loop
main_classify_fetch_failure_breaks(x) ==
    IF x.details = <<>>
    THEN Break(Skip(x, <<"Failed to fetch PR details">>), "fetch")
    ELSE IF Get(x.details, "isDraft", FALSE)
    THEN Continue(Skip(x, <<"PR is a draft">>))
    ELSE IF Get(x.details, "state", Absent) = "MERGED"
    THEN Continue(Skip(x, <<"Already merged">>))
    ELSE LET merge_state == Get(x.details, "mergeStateStatus", "UNKNOWN")
             mergeable == Get(x.details, "mergeable", "UNKNOWN")
         IN  [x EXCEPT !.merge_state = merge_state, !.mergeable = mergeable,
                       !.pc = IF merge_state = "BEHIND" THEN "update_pr_branch"
                              ELSE "evaluate"]

\* lines 560-589
main_classify(x) ==
    IF x.details = <<>>
    THEN Continue(Skip(x, <<"Failed to fetch PR details">>))
    ELSE IF Get(x.details, "isDraft", FALSE)
    THEN Continue(Skip(x, <<"PR is a draft">>))
    ELSE IF Get(x.details, "state", Absent) = "MERGED"
    THEN Continue(Skip(x, <<"Already merged">>))
    ELSE LET merge_state == Get(x.details, "mergeStateStatus", "UNKNOWN")
             mergeable == Get(x.details, "mergeable", "UNKNOWN")
         IN  [x EXCEPT !.merge_state = merge_state, !.mergeable = mergeable,
                       !.pc = IF merge_state = "BEHIND" THEN "update_pr_branch"
                              ELSE "evaluate"]

\* lines 590-598
main_update_pr_branch(x, resp) ==
    LET r == update_pr_branch(x.prs[x.i].number, resp)
        y == [Called(x, r.calls) EXCEPT !.seen.update = <<resp>>]
    IN  IF ~r.success THEN Break(Skip(y, r.msg), "update")
        ELSE [y EXCEPT !.pc = "refresh"]

\* faulty variant of main_refresh: the 1-based loop index is used as a list index
main_refresh_next_item(x, resp) ==
    LET next == IF x.i < Len(x.prs) THEN x.i + 1 ELSE x.i
        r == get_pr_details(x.prs[next].number, resp)
    IN  [Called(x, r.calls) EXCEPT
            !.details = r.details,
            !.merge_state = Get(r.details, "mergeStateStatus", "UNKNOWN"),
            !.seen = SeenAgain(@, r.details),
            !.pc = "evaluate"]

\* lines 600-601
main_refresh(x, resp) ==
    LET r == get_pr_details(x.prs[x.i].number, resp)
    IN  [Called(x, r.calls) EXCEPT
            !.details = r.details,
            !.merge_state = Get(r.details, "mergeStateStatus", "UNKNOWN"),
            !.seen = SeenAgain(@, r.details),
            !.pc = "evaluate"]

\* faulty variant of main_evaluate: a merge conflict skips the item and goes on
main_evaluate_conflict_continues(x) ==
    LET review == check_review_approval(x.details)
    IN  IF x.merge_state = "DIRTY" \/ x.mergeable = "CONFLICTING"
        THEN Continue(Skip(x, <<"Merge conflicts - manual resolution required">>))
        ELSE IF ~review.approved THEN Break(Skip(x, review.msg), "review")
        ELSE [DropItemLocals(x) EXCEPT !.clock = 0, !.pc = "wait_for_checks"]

\* faulty variant of main_evaluate: an unexpected merge state stops the loop
main_evaluate_unexpected_state_halts(x) ==
    LET review == check_review_approval(x.details)
    IN  IF x.merge_state = "DIRTY" \/ x.mergeable = "CONFLICTING"
        THEN Break(Skip(x, <<"Merge conflicts - manual resolution required">>),
                   "conflict")
        ELSE IF x.merge_state \notin {"CLEAN", "HAS_HOOKS"}
        THEN Break(Skip(x, <<"Unexpected merge state: ", x.merge_state>>), "state")
        ELSE IF ~review.approved THEN Break(Skip(x, review.msg), "review")
        ELSE [DropItemLocals(x) EXCEPT !.clock = 0, !.pc = "wait_for_checks"]

\* lines 603-623, then lines 189-191 of wait_for_checks
main_evaluate(x) ==
    LET review == check_review_approval(x.details)
    IN  IF x.merge_state = "DIRTY" \/ x.mergeable = "CONFLICTING"
        THEN Break(Skip(x, <<"Merge conflicts - manual resolution required">>),
                   "conflict")
        ELSE IF ~review.approved THEN Break(Skip(x, review.msg), "review")
        ELSE [DropItemLocals(x) EXCEPT !.clock = 0, !.pc = "wait_for_checks"]

timeout_seconds(x) == x.args.timeout * SecondsPerMinute

\* lines 194-198 (and 624-628 when the wait timed out)
wait_for_checks_poll(x, resp) ==
    LET r == get_check_status(x.prs[x.i].number, resp)
        y == [x EXCEPT !.elapsed = x.clock]
    IN  IF y.elapsed > timeout_seconds(x)
        THEN Break(Skip(DropPollLocals(y),
                        <<"Timeout after ", ToString(x.args.timeout),
                          " minutes waiting for checks">>),
                   "timeout")
        ELSE [Called(y, r.calls) EXCEPT
                !.status = r.status, !.checks = r.checks, !.seen.polled = r.status,
                !.pc = "check_status"]

\* faulty variant of wait_for_checks_branch: start_time is taken anew after every sleep
wait_for_checks_branch_restarts_clock(x) ==
    IF x.status = "SUCCESS" THEN [DropPollLocals(x) EXCEPT !.pc = "merge_pr"]
    ELSE IF x.status = "FAILURE"
    THEN Break(Skip(DropPollLocals(x), <<"Checks failed: ">> \o FailedNames(x.checks)),
               "checks")
    ELSE [x EXCEPT !.clock = 0, !.status = Absent, !.checks = <<>>,
                   !.pc = "wait_for_checks"]

\* lines 200-212 (and 624-629 when the wait returned)
wait_for_checks_branch(x) ==
    IF x.status = "SUCCESS" THEN [DropPollLocals(x) EXCEPT !.pc = "merge_pr"]
    ELSE IF x.status = "FAILURE"
    THEN Break(Skip(DropPollLocals(x), <<"Checks failed: ">> \o FailedNames(x.checks)),
               "checks")
    ELSE [x EXCEPT !.clock = @ + poll_interval, !.status = Absent, !.checks = <<>>,
                   !.pc = "wait_for_checks"]

\* faulty variant of main_merge_pr: a failed merge leaves the loop unrecorded
main_merge_pr_unrecorded(x, resp) ==
    LET r == merge_pr(x.prs[x.i].number, x.args.dry_run, resp)
        pr == [x.prs[x.i] EXCEPT
                 !.result = IF ~x.args.dry_run THEN "merged" ELSE "would merge"]
    IN  IF ~r.success THEN Break(Called(x, r.calls), "merge")
        ELSE [Called(x, r.calls) EXCEPT
                !.prs[x.i] = pr, !.merged = Append(@, pr),
                !.pc = "verify_main_health"]

\* lines 633-641
main_merge_pr(x, resp) ==
    LET r == merge_pr(x.prs[x.i].number, x.args.dry_run, resp)
        pr == [x.prs[x.i] EXCEPT
                 !.result = IF ~x.args.dry_run THEN "merged" ELSE "would merge"]
    IN  IF ~r.success THEN Break(Skip(Called(x, r.calls), r.msg), "merge")
        ELSE [Called(x, r.calls) EXCEPT
                !.prs[x.i] = pr, !.merged = Append(@, pr),
                !.pc = "verify_main_health"]

\* faulty variant of main_verify_main_health: the trunk is not verified in dry-run
main_verify_main_health_live_only(x, resp) ==
    LET r == verify_main_health(resp)
        y == [Called(x, r.calls) EXCEPT !.healthy = r.healthy]
    IN  IF x.args.dry_run THEN Continue(x)
        ELSE IF ~y.healthy THEN Break(y, "trunk") ELSE Continue(y)

\* faulty variant of main_verify_main_health: an unhealthy trunk is only logged
main_verify_main_health_no_break(x, resp) ==
    LET r == verify_main_health(resp)
        y == [Called(x, r.calls) EXCEPT !.healthy = r.healthy]
    IN  Continue(y)

\* faulty variant of main_verify_main_health: in dry-run an unhealthy trunk is only logged
main_verify_main_health_dry_run_goes_on(x, resp) ==
    LET r == verify_main_health(resp)
        y == [Called(x, r.calls) EXCEPT !.healthy = r.healthy]
    IN  IF ~y.healthy /\ ~x.args.dry_run THEN Break(y, "trunk") ELSE Continue(y)

\* lines 645-653
main_verify_main_health(x, resp) ==
    LET r == verify_main_health(resp)
        y == [Called(x, r.calls) EXCEPT !.healthy = r.healthy]
    IN  IF ~y.healthy THEN Break(y, "trunk") ELSE Continue(y)

\* faulty variant of ReportOf: the details stop at the last item the loop took
ReportOf_taken_only(x) ==
    [prs |-> [k \in 1 .. x.i |-> x.prs[k].number],
     merged |-> [k \in DOMAIN x.merged |-> x.merged[k].number],
     skipped |-> [k \in DOMAIN x.skipped |-> x.skipped[k].number]]

\* what generate_report writes about the three lists: the numbers of the "PR
\* Details" entries (lines 405-416), of the rows of the "Merged PRs" table (366-377)
\* and of the rows of the "Skipped/Blocked PRs" table (379-390)
ReportOf(x) ==
    [prs |-> [k \in DOMAIN x.prs |-> x.prs[k].number],
     merged |-> [k \in DOMAIN x.merged |-> x.merged[k].number],
     skipped |-> [k \in DOMAIN x.skipped |-> x.skipped[k].number]]

\* faulty variant of ExitStatus: any skip is reported as a partial success
ExitStatus_skip_is_partial(merged, skipped) ==
    IF skipped # <<>> THEN 2
    ELSE 0

\* lines 679-685
ExitStatus(merged, skipped) ==
    IF skipped # <<>> /\ merged = <<>> THEN 1
    ELSE IF skipped # <<>> THEN 2
    ELSE 0

\* faulty variant of main_generate_report: no report when nothing was merged
main_generate_report_merged_only(x, resp) ==
    IF x.merged = <<>> THEN Exit(LoopOver(x), ExitStatus(x.merged, x.skipped))
    ELSE IF resp = "OSError" THEN Exit([LoopOver(x) EXCEPT !.raised = resp], 1)
    ELSE Exit([LoopOver(x) EXCEPT !.reports = Append(@, ReportOf(x))],
              ExitStatus(x.merged, x.skipped))

\* lines 655-685; an exception of mkdir or write_text ends the process with status 1
main_generate_report(x, resp) ==
    IF resp = "OSError" THEN Exit([LoopOver(x) EXCEPT !.raised = resp], 1)
    ELSE Exit([LoopOver(x) EXCEPT !.reports = Append(@, ReportOf(x))],
              ExitStatus(x.merged, x.skipped))

(***************************************************************************)
(* The sessions of `run` take every step together and are given the same   *)
(* gateway answer.                                                         *)
(***************************************************************************)
At(pc) == \A r \in DOMAIN run : run[r].pc = pc

Init ==
    \E args \in Args : run = [r \in {"main"} |-> NewSession(args)]

CheckGhAuth ==
    /\ At("check_gh_auth")
    /\ \E resp \in ExitCodes :
           run' = [r \in DOMAIN run |-> main_check_gh_auth(Begin(run[r]), resp)]

CheckCleanWorkingTree ==
    /\ At("check_clean_working_tree")
    /\ \E resp \in [code : ExitCodes, clean : BOOLEAN] :
           run' = [r \in DOMAIN run |-> main_check_clean_working_tree(Begin(run[r]), resp)]

FetchOrigin ==
    /\ At("fetch_origin")
    /\ \E resp \in ExitCodes :
           run' = [r \in DOMAIN run |-> main_fetch_origin(Begin(run[r]), resp)]

GetOpenPrs ==
    /\ At("get_open_prs")
    /\ \E resp \in ListResponses :
           run' = [r \in DOMAIN run |-> main_get_open_prs(Begin(run[r]), resp)]

For ==
    /\ At("for")
    /\ run' = [r \in DOMAIN run |-> main_for(Begin(run[r]))]

GetPrDetails ==
    /\ At("get_pr_details")
    /\ \E resp \in DetailResponses :
           run' = [r \in DOMAIN run |-> main_get_pr_details(Begin(run[r]), resp)]

Classify ==
    /\ At("classify")
    /\ run' = [r \in DOMAIN run |-> main_classify(Begin(run[r]))]

UpdatePrBranch ==
    /\ At("update_pr_branch")
    /\ \E resp \in UpdateResponses :
           run' = [r \in DOMAIN run |-> main_update_pr_branch(Begin(run[r]), resp)]

Refresh ==
    /\ At("refresh")
    /\ \E resp \in DetailResponses :
           run' = [r \in DOMAIN run |-> main_refresh(Begin(run[r]), resp)]

Evaluate ==
    /\ At("evaluate")
    /\ run' = [r \in DOMAIN run |-> main_evaluate(Begin(run[r]))]

WaitForChecksPoll ==
    /\ At("wait_for_checks")
    /\ \E resp \in CheckResponses :
           run' = [r \in DOMAIN run |-> wait_for_checks_poll(Begin(run[r]), resp)]

WaitForChecksBranch ==
    /\ At("check_status")
    /\ run' = [r \in DOMAIN run |-> wait_for_checks_branch(Begin(run[r]))]

MergePr(answers) ==
    /\ At("merge_pr")
    /\ \E resp \in answers :
           run' = [r \in DOMAIN run |-> main_merge_pr(Begin(run[r]), resp)]

VerifyMainHealth ==
    /\ At("verify_main_health")
    /\ \E resp \in HealthResponses :
           run' = [r \in DOMAIN run |-> main_verify_main_health(Begin(run[r]), resp)]

GenerateReport ==
    /\ At("generate_report")
    /\ \E resp \in WriteResults :
           run' = [r \in DOMAIN run |-> main_generate_report(Begin(run[r]), resp)]

Steps ==
    \/ CheckGhAuth
    \/ CheckCleanWorkingTree
    \/ FetchOrigin
    \/ GetOpenPrs
    \/ For
    \/ GetPrDetails
    \/ Classify
    \/ UpdatePrBranch
    \/ Refresh
    \/ Evaluate
    \/ WaitForChecksPoll
    \/ WaitForChecksBranch
    \/ VerifyMainHealth
    \/ GenerateReport

MergePrAny == MergePr(MergeResponses)

Next == Steps \/ MergePrAny

Spec == Init /\ [][Next]_vars

(***************************************************************************)
(* A live session and a dry-run session side by side, on the same queue    *)
(* and the same answers, every live merge succeeding.                      *)
(***************************************************************************)
InitPair ==
    \E args \in Args :
        run = [r \in {"main", "twin"} |->
                 NewSession([args EXCEPT !.dry_run = (r = "twin")])]

MergePrOk == MergePr({MergeOk})

NextPair == Steps \/ MergePrOk

SpecPair == InitPair /\ [][NextPair]_vars

\* the session of Spec, and the live session of SpecPair
S == run["main"]

(***************************************************************************)
(* A session on the queue 101, 102, 103, 104 in which everything goes well *)
(* but for the change requests themselves: the preflight checks pass, the  *)
(* list answers with the four items in some order, 101 is clean, 102 is    *)
(* BEHIND, its update succeeds and it is clean afterwards, 103 is DIRTY,   *)
(* every check set has passed, every merge succeeds, the trunk is healthy  *)
(* and the report is written.  No limit truncates the queue.               *)
(***************************************************************************)
ScenarioQueue == <<101, 102, 103, 104>>

ScenarioArgs == {a \in Args : a.limit = 0}

ScenarioListings ==
    {q \in [DOMAIN ScenarioQueue ->
                [number : {ScenarioQueue[k] : k \in DOMAIN ScenarioQueue},
                 labels : {{SessionLabel}}]] :
        \A a, b \in DOMAIN q : a # b => q[a].number # q[b].number}

ScenarioPassable ==
    {d \in DetailRecords :
        /\ ~d.isDraft /\ d.state = "OPEN" /\ d.mergeable = "MERGEABLE"
        /\ d.reviewDecision \in {"APPROVED", ""}}

\* what gh pr view answers for the item `number` when it is first fetched
ScenarioDetails(number) ==
    CASE number = 101 -> {d \in ScenarioPassable : d.mergeStateStatus = "CLEAN"}
      [] number = 102 -> {d \in ScenarioPassable : d.mergeStateStatus = "BEHIND"}
      [] number = 103 ->
           {d \in DetailRecords :
               ~d.isDraft /\ d.state = "OPEN" /\ d.mergeStateStatus = "DIRTY"}
      [] OTHER -> DetailRecords

\* and after its branch was updated
ScenarioRefreshed == {d \in ScenarioPassable : d.mergeStateStatus = "CLEAN"}

ScenarioChecks ==
    {c \in CheckLists :
        \A k \in DOMAIN c : c[k].state = "COMPLETED" /\ c[k].conclusion = "SUCCESS"}

ScenarioHealth ==
    {h \in HealthResponses :
        /\ h.revparse = 0
        /\ \A k \in DOMAIN h.list.runs :
               h.list.runs[k].status = "completed" => h.list.runs[k].conclusion = "success"}

Parsed(key, value) == [code |-> 0, parses |-> TRUE] @@ (key :> value)

ScenarioInit == \E args \in ScenarioArgs : run = [r \in {"main"} |-> NewSession(args)]

ScenarioCheckGhAuth ==
    /\ At("check_gh_auth")
    /\ run' = [r \in DOMAIN run |-> main_check_gh_auth(Begin(run[r]), 0)]

ScenarioCheckCleanWorkingTree ==
    /\ At("check_clean_working_tree")
    /\ run' = [r \in DOMAIN run |->
                 main_check_clean_working_tree(Begin(run[r]), [code |-> 0, clean |-> TRUE])]

ScenarioFetchOrigin ==
    /\ At("fetch_origin")
    /\ run' = [r \in DOMAIN run |-> main_fetch_origin(Begin(run[r]), 0)]

ScenarioGetOpenPrs ==
    /\ At("get_open_prs")
    /\ \E q \in ScenarioListings :
           run' = [r \in DOMAIN run |->
                     main_get_open_prs(Begin(run[r]), Parsed("prs", q))]

ScenarioGetPrDetails ==
    /\ At("get_pr_details")
    /\ \E d \in ScenarioDetails(S.prs[S.i].number) :
           run' = [r \in DOMAIN run |->
                     main_get_pr_details(Begin(run[r]), Parsed("json", d))]

ScenarioUpdatePrBranch ==
    /\ At("update_pr_branch")
    /\ run' = [r \in DOMAIN run |->
                 main_update_pr_branch(Begin(run[r]), [code |-> 0, stderr |-> ""])]

ScenarioRefresh ==
    /\ At("refresh")
    /\ \E d \in ScenarioRefreshed :
           run' = [r \in DOMAIN run |-> main_refresh(Begin(run[r]), Parsed("json", d))]

ScenarioWaitForChecksPoll ==
    /\ At("wait_for_checks")
    /\ \E c \in ScenarioChecks :
           run' = [r \in DOMAIN run |->
                     wait_for_checks_poll(Begin(run[r]), Parsed("checks", c))]

ScenarioVerifyMainHealth ==
    /\ At("verify_main_health")
    /\ \E resp \in ScenarioHealth :
           run' = [r \in DOMAIN run |-> main_verify_main_health(Begin(run[r]), resp)]

ScenarioGenerateReport ==
    /\ At("generate_report")
    /\ run' = [r \in DOMAIN run |-> main_generate_report(Begin(run[r]), "written")]

NextScenario ==
    \/ ScenarioCheckGhAuth
    \/ ScenarioCheckCleanWorkingTree
    \/ ScenarioFetchOrigin
    \/ ScenarioGetOpenPrs
    \/ For
    \/ ScenarioGetPrDetails
    \/ Classify
    \/ ScenarioUpdatePrBranch
    \/ ScenarioRefresh
    \/ Evaluate
    \/ ScenarioWaitForChecksPoll
    \/ WaitForChecksBranch
    \/ MergePrOk
    \/ ScenarioVerifyMainHealth
    \/ ScenarioGenerateReport

SpecScenario == ScenarioInit /\ [][NextScenario]_vars

(***************************************************************************)
(* Live sessions one after the other on the same host.  The host changes   *)
(* a change request to MERGED when gh pr merge lands, which it does when   *)
(* the command succeeds and may have done when the command reports an      *)
(* error (the merge is followed by the deletion of the branch); nobody     *)
(* else merges.  gh pr view answers with the lifecycle state the host      *)
(* holds; gh pr list (--state open) may lag behind the host and still list *)
(* a merged change request.  A session that has exited can be started      *)
(* again with the same arguments.                                          *)
(***************************************************************************)
HostDetailResponses(number, host) ==
    {resp \in DetailResponses :
        resp.json # <<>> => (resp.json.state = "MERGED" <=> number \in host)}

HostMergeResponses ==
    {r @@ ("landed" :> l) : r \in MergeResponses, l \in BOOLEAN} \ {MergeOk @@ ("landed" :> FALSE)}

\* the effect of the gh pr merge of step y on the host
Landed(y, resp) ==
    IF resp.landed /\ y.made # <<>>
    THEN [y EXCEPT !.host = @ \cup {y.prs[y.i].number}]
    ELSE y

InitRestart ==
    \E args \in Args :
        /\ ~args.dry_run
        /\ run = [r \in {"main"} |-> NewSession(args)]

HostGetPrDetails ==
    /\ At("get_pr_details")
    /\ \E resp \in HostDetailResponses(S.prs[S.i].number, S.host) :
           run' = [r \in DOMAIN run |-> main_get_pr_details(Begin(run[r]), resp)]

HostRefresh ==
    /\ At("refresh")
    /\ \E resp \in HostDetailResponses(S.prs[S.i].number, S.host) :
           run' = [r \in DOMAIN run |-> main_refresh(Begin(run[r]), resp)]

HostMergePr ==
    /\ At("merge_pr")
    /\ \E resp \in HostMergeResponses :
           run' = [r \in DOMAIN run |->
                     Landed(main_merge_pr(Begin(run[r]), resp), resp)]

Restart ==
    /\ At("exit")
    /\ run' = [r \in DOMAIN run |->
                 [NewSession(run[r].args) EXCEPT !.host = run[r].host]]

NextRestart ==
    \/ CheckGhAuth
    \/ CheckCleanWorkingTree
    \/ FetchOrigin
    \/ GetOpenPrs
    \/ For
    \/ HostGetPrDetails
    \/ Classify
    \/ UpdatePrBranch
    \/ HostRefresh
    \/ Evaluate
    \/ WaitForChecksPoll
    \/ WaitForChecksBranch
    \/ HostMergePr
    \/ VerifyMainHealth
    \/ GenerateReport
    \/ Restart

SpecRestart == InitRestart /\ [][NextRestart]_vars

(***************************************************************************)
(* verify_main_health on its own: called with the answers of git fetch,    *)
(* git rev-parse and gh run list, it returns.                              *)
(***************************************************************************)
InitVerifier ==
    \E resp \in HealthResponses :
        run = [r \in {"main"} |-> [pc |-> "called", resp |-> resp, returned |-> <<>>]]

VerifierReturns ==
    /\ At("called")
    /\ run' = [r \in DOMAIN run |->
                 [run[r] EXCEPT !.returned = <<verify_main_health(run[r].resp).healthy>>,
                                !.pc = "returned"]]

NextVerifier == VerifierReturns

SpecVerifier == InitVerifier /\ [][NextVerifier]_vars

(***************************************************************************)
(* wait_for_checks on its own, with the check runs of the change request   *)
(* as the host has them: main() has just called it for the only queued     *)
(* item, every query is answered with the runs of that moment or fails,    *)
(* and the runs change between the queries.                                *)
(***************************************************************************)
PollerArgs == {a \in Args : ~a.dry_run /\ a.session = "" /\ a.limit = 0}

Polling(x) == x.pc \in {"wait_for_checks", "check_status"}

InitPoller ==
    \E args \in PollerArgs, c \in CheckLists :
        run = [r \in {"main"} |->
                 ("runs" :> c) @@
                 [NewSession(args) EXCEPT
                    !.prs = <<QueuedPR([number |-> 101])>>, !.i = 1,
                    !.pc = "wait_for_checks"]]

\* gh pr checks, answered by the host or failing
PollerQuery ==
    /\ At("wait_for_checks")
    /\ \E r \in DOMAIN run :
       \E resp \in {Parsed("checks", run[r].runs)} \cup {a \in CheckResponses : a.code # 0 \/ ~a.parses} :
           run' = [q \in DOMAIN run |-> wait_for_checks_poll(Begin(run[q]), resp)]

\* one check run of the change request moves on while the poller sleeps
CheckRunsChange ==
    /\ At("wait_for_checks")
    /\ \E k \in 1 .. MaxChecks, st \in RunStates :
          /\ \A r \in DOMAIN run :
                k <= Len(run[r].runs) /\ run[r].runs[k].state # st.state
          /\ run' = [r \in DOMAIN run |->
                       [run[r] EXCEPT !.runs[k].state = st.state,
                                      !.runs[k].conclusion = st.conclusion]]

PollerSteps ==
    \/ PollerQuery
    \/ WaitForChecksBranch

NextPoller ==
    \/ PollerSteps
    \/ CheckRunsChange

SpecPoller == InitPoller /\ [][NextPoller]_vars

\* the poller runs on whatever the pipeline does
SpecPollerLive == SpecPoller /\ WF_vars(PollerSteps)

(***************************************************************************)
(* Vocabulary of the properties.                                           *)
(***************************************************************************)
Numbers(q) == {q[k].number : k \in DOMAIN q}

\* the queue positions of the items recorded in merged or skipped
Recorded(x) ==
    {k \in DOMAIN x.prs : x.prs[k].number \in Numbers(x.merged) \cup Numbers(x.skipped)}

\* the queue positions of the items a gateway call was made for
Touched(x) ==
    {k \in DOMAIN x.prs : \E c \in x.calls : c[2] = x.prs[k].number}

Mutations == {"gh pr merge", "gh pr update-branch"}

LoopLeft(x) == x.pc \in {"generate_report", "exit"}

(***************************************************************************)
(* C1.  In every reachable state of a session, merged and skipped share no *)
(* item, and the queue positions of the items in merged or skipped are     *)
(* exactly 1..k for some k: no recorded item comes after an unrecorded one.*)
(***************************************************************************)
C1_RecordedIsPrefix ==
    /\ Numbers(S.merged) \cap Numbers(S.skipped) = {}
    /\ Recorded(S) = 1 .. Cardinality(Recorded(S))
    /\ Cardinality(Recorded(S)) = Len(S.merged) + Len(S.skipped)

\* a session that halted on its first item with the second one left unrecorded
C1_Witness ==
    /\ S.pc = "exit"
    /\ Len(S.prs) = 2
    /\ Recorded(S) = {1}
    /\ Len(S.skipped) = 1

(***************************************************************************)
(* C2.  Once a fatal condition has occurred for the item at queue position *)
(* h, no item at a position greater than h has been fetched, evaluated,    *)
(* merged or recorded, in any later state of the session, and the loop has *)
(* been left.                                                              *)
(***************************************************************************)
C2_HaltIsStrict ==
    S.halted # 0 =>
        /\ LoopLeft(S)
        /\ S.i = S.halted
        /\ \A k \in Recorded(S) \cup Touched(S) : k <= S.halted

\* a session that halted at position 1 of a queue of two and has run to its exit
C2_Witness ==
    /\ S.pc = "exit"
    /\ S.halted = 1
    /\ Len(S.prs) = 2
    /\ S.fatal = "review"

(***************************************************************************)
(* C3.  At every queue position, an item whose fetched detail is a draft   *)
(* or has state MERGED is appended to skipped (reason: draft, else already *)
(* merged) without halting, whatever its mergeability and review decision, *)
(* and the loop then takes the next queued item if there is one.           *)
(***************************************************************************)
C3_IsDraftOrMerged(x) ==
    /\ x.pc = "classify"
    /\ x.details # <<>>
    /\ (x.details.isDraft \/ x.details.state = "MERGED")

C3_DraftAndMergedSkipNonFatally ==
    [][/\ C3_IsDraftOrMerged(S) =>
            /\ S'.pc = "for"
            /\ S'.halted = 0
            /\ S'.merged = S.merged
            /\ S'.made = <<>>
            /\ S'.skipped =
                 Append(S.skipped,
                        [number |-> S.prs[S.i].number,
                         reason |-> IF S.details.isDraft THEN <<"PR is a draft">>
                                    ELSE <<"Already merged">>,
                         result |-> Absent])
       /\ (S.pc = "for" /\ S.i < Len(S.prs)) =>
            (S'.pc = "get_pr_details" /\ S'.i = S.i + 1)
      ]_vars

\* the second item of the queue, a draft that is also DIRTY with changes requested,
\* has just been skipped and the loop goes on
C3_Witness ==
    /\ S.pc = "for"
    /\ S.i = 2
    /\ S.details # <<>>
    /\ S.details.isDraft
    /\ S.details.mergeStateStatus = "DIRTY"
    /\ S.details.reviewDecision = "CHANGES_REQUESTED"
    /\ S.halted = 0
    /\ Len(S.skipped) = 2
    /\ S.skipped[2].reason = <<"PR is a draft">>
    /\ S.skipped[1].reason = <<"Already merged">>

(***************************************************************************)
(* C4.  In a dry-run session no merge call and no branch-update call is    *)
(* ever made.  The code updates the branch of a BEHIND item whatever the   *)
(* dry-run flag is (line 590), so this does not hold.                      *)
(***************************************************************************)
C4_DryRunNeverMutates ==
    S.args.dry_run => \A c \in S.calls : c[1] \notin Mutations

(***************************************************************************)
(* C5.  A live session and a dry-run session on the same queue and the     *)
(* same gateway answers, every live merge succeeding, take the same        *)
(* decisions at every step: they are at the same place of the same item,   *)
(* with the same items merged, the same items skipped for the same         *)
(* reasons, and the same halting position and condition.                   *)
(***************************************************************************)
C5_MergedNumbers(x) == [k \in DOMAIN x.merged |-> x.merged[k].number]

C5_DryRunDecidesAsLive ==
    LET live == run["main"]
        dry == run["twin"]
    IN  /\ live.pc = dry.pc
        /\ live.i = dry.i
        /\ C5_MergedNumbers(live) = C5_MergedNumbers(dry)
        /\ live.skipped = dry.skipped
        /\ live.halted = dry.halted
        /\ live.fatal = dry.fatal
        /\ live.exit_code = dry.exit_code

\* both sessions are over: the first item merged (by a merge call in the live
\* session only), the second one skipped on a fatal condition
C5_Witness ==
    /\ DOMAIN run = {"main", "twin"}
    /\ run["main"].pc = "exit" /\ run["twin"].pc = "exit"
    /\ ~run["main"].args.dry_run /\ run["twin"].args.dry_run
    /\ Len(run["twin"].merged) = 1 /\ Len(run["twin"].skipped) = 1
    /\ run["twin"].halted = 2
    /\ <<"gh pr merge", 101>> \in run["main"].calls
    /\ <<"gh pr merge", 101>> \notin run["twin"].calls
    /\ run["twin"].merged[1].result = "would merge"

(***************************************************************************)
(* C6.  A session that discovered a non-empty queue exits with status 0    *)
(* only if every queued item is in merged and skipped is empty.  A session *)
(* that halts on an unhealthy trunk records no skip and exits with 0 with  *)
(* items left unprocessed, so this does not hold.                          *)
(***************************************************************************)
C6_ExitZeroMeansAllMerged ==
    (S.pc = "exit" /\ S.prs # <<>> /\ S.exit_code = 0) =>
        /\ Len(S.merged) = Len(S.prs)
        /\ S.skipped = <<>>

(***************************************************************************)
(* C7.  The exit status of a session that went through the loop is decided *)
(* by the final lists alone: 1 for merged empty and skipped non-empty, 0   *)
(* for merged non-empty and skipped empty, 2 for both non-empty.  A report *)
(* that cannot be written ends the process with status 1 whatever the      *)
(* lists are, so this does not hold.                                       *)
(***************************************************************************)
C7_ExitStatusFromLists ==
    (S.pc = "exit" /\ S.prs # <<>>) =>
        /\ (S.merged = <<>> /\ S.skipped # <<>>) => S.exit_code = 1
        /\ (S.merged # <<>> /\ S.skipped = <<>>) => S.exit_code = 0
        /\ (S.merged # <<>> /\ S.skipped # <<>>) => S.exit_code = 2

(***************************************************************************)
(* C8.  As claimed: every fatal condition, an unhealthy trunk after a      *)
(* merge included, leaves the item it occurred for as the latest entry of  *)
(* skipped, with a non-empty reason, and nothing after it is touched.      *)
(***************************************************************************)
C8_LaterUntouched(x) ==
    /\ LoopLeft(x)
    /\ \A k \in Recorded(x) \cup Touched(x) : k <= x.halted

C8_SkippedWithReason(x) ==
    /\ x.skipped # <<>>
    /\ x.skipped[Len(x.skipped)].number = x.prs[x.halted].number
    /\ x.skipped[Len(x.skipped)].reason # <<>>
    /\ x.skipped[Len(x.skipped)].reason[1] # ""
    /\ x.prs[x.halted].number \notin Numbers(x.merged)

C8_ReasonOf(why) ==
    CASE why = "update" -> {"Merge conflicts detected - manual resolution required",
                            "Failed to update branch: "}
      [] why = "conflict" -> {"Merge conflicts - manual resolution required"}
      [] why = "review" -> {"Changes requested - needs update and re-approval",
                            "Review required - needs approval"}
      [] why = "checks" -> {"Checks failed: "}
      [] why = "timeout" -> {"Timeout after "}
      [] why = "merge" -> {"Merge failed: "}
      [] OTHER -> {}

C9_UnhealthyTrunkHalts ==
    [][/\ ~S'.healthy =>
            /\ LoopLeft(S')
            /\ S'.halted = S'.i
            /\ S'.merged # <<>>
            /\ S'.merged[Len(S'.merged)].number = S'.prs[S'.i].number
       /\ ~S.healthy => (S'.made = <<>> /\ S'.calls = S.calls /\ S'.merged = S.merged)
      ]_vars

\* a live session over after its first merge broke the trunk: the merge was made,
\* the second item never fetched
C9_Witness ==
    /\ S.pc = "exit"
    /\ ~S.healthy
    /\ ~S.args.dry_run
    /\ Len(S.prs) = 2
    /\ <<"gh pr merge", 101>> \in S.calls
    /\ S.merged[1].result = "merged"
    /\ Touched(S) = {1}

(***************************************************************************)
(* C10.  Whenever the check query answers a non-empty check set in which   *)
(* some check has conclusion FAILURE, ERROR, CANCELLED or TIMED_OUT, the   *)
(* aggregate status is FAILURE, also when other checks are PENDING or      *)
(* IN_PROGRESS, and the poller returns failure on that very poll: the item *)
(* is skipped and the loop left without sleeping or querying again.        *)
(***************************************************************************)
C10_SomeCheckFailed(x) ==
    /\ x.pc = "check_status"
    /\ \E k \in DOMAIN x.checks :
          x.checks[k].conclusion \in {"FAILURE", "ERROR", "CANCELLED", "TIMED_OUT"}

C10_FailureTakesPrecedence ==
    [][/\ C10_SomeCheckFailed(S') => S'.status = "FAILURE"
       /\ C10_SomeCheckFailed(S) =>
            /\ S'.pc = "generate_report"
            /\ S'.fatal = "checks"
            /\ S'.made = <<>>
            /\ S'.skipped # <<>>
            /\ S'.skipped[Len(S'.skipped)].number = S.prs[S.i].number
      ]_vars

\* the query has just answered one cancelled check and one pending check
C10_Witness ==
    /\ S.pc = "check_status"
    /\ Len(S.checks) = 2
    /\ S.checks[1].state = "PENDING"
    /\ S.checks[2].conclusion = "CANCELLED"
    /\ S.status = "FAILURE"

(***************************************************************************)
(* C11.  Whenever the poller has queried the checks of an item and the     *)
(* check set holds no failure conclusion, the aggregate status is the one  *)
(* of the reference rule: SUCCESS for the empty set, PENDING when some     *)
(* check is PENDING or IN_PROGRESS, SUCCESS otherwise.  On SUCCESS the     *)
(* poller returns at once, without a sleep (on its first query when the    *)
(* set is empty then); on PENDING it sleeps one poll interval and polls    *)
(* again, and the item is neither skipped nor the loop halted.             *)
(***************************************************************************)
C11_NoFailure(checks) ==
    \A k \in DOMAIN checks : checks[k].conclusion \notin FailureConclusions

C11_Reference(checks) ==
    IF checks = <<>> THEN "SUCCESS"
    ELSE IF \E k \in DOMAIN checks : checks[k].state \in {"PENDING", "IN_PROGRESS"}
         THEN "PENDING"
         ELSE "SUCCESS"

C11_AggregateFollowsReference ==
    [][(S.pc = "check_status" /\ S.status # "UNKNOWN" /\ C11_NoFailure(S.checks)) =>
          /\ S.status = C11_Reference(S.checks)
          /\ S.status = "SUCCESS" =>
                /\ S'.pc = "merge_pr"
                /\ S'.skipped = S.skipped /\ S'.halted = 0
          /\ S.status = "PENDING" =>
                /\ S'.pc = "wait_for_checks"
                /\ S'.clock = S.clock + poll_interval
                /\ S'.skipped = S.skipped /\ S'.halted = 0]_vars

\* after one PENDING poll and one sleep, a check that is still IN_PROGRESS
C11_Witness ==
    /\ S.pc = "check_status"
    /\ S.clock = poll_interval
    /\ S.status = "PENDING"
    /\ Len(S.checks) = 1
    /\ S.checks[1].state = "IN_PROGRESS"

(***************************************************************************)
(* C12.  When one of the three preflight checks (gateway authentication,   *)
(* clean workspace, fetch of the remote) has failed, the session has       *)
(* exited with a non-zero status at that check: discovery was not run, the *)
(* queue is empty, and no change-request call (list, details, checks,      *)
(* update, merge) has been made.                                           *)
(***************************************************************************)
C12_PrCommands ==
    {"gh pr list", "gh pr view", "gh pr checks", "gh pr update-branch", "gh pr merge"}

C12_PreflightFailed == \E k \in DOMAIN S.preflight : ~S.preflight[k]

C12_PreflightFailureAborts ==
    C12_PreflightFailed =>
        /\ S.pc = "exit"
        /\ S.exit_code # 0 /\ S.exit_code # NoExit
        /\ ~S.preflight[Len(S.preflight)]
        /\ S.prs = <<>> /\ S.i = 0
        /\ \A c \in S.calls : c[1] \notin C12_PrCommands

\* authentication and the workspace passed, the fetch of the remote failed
C12_Witness ==
    /\ S.preflight = <<TRUE, TRUE, FALSE>>
    /\ S.pc = "exit"
    /\ S.exit_code = 1

(***************************************************************************)
(* C13.  The queue is in strictly ascending order of number from its       *)
(* discovery on, and no step changes the numbers at its positions.  The    *)
(* loop position only moves forward, one item at a time, and only items at *)
(* or before it have been fetched or recorded: of two items that are both  *)
(* processed, the one with the smaller number is processed first.          *)
(***************************************************************************)
C13_Ascending(q) ==
    \A j, k \in DOMAIN q : j < k => q[j].number < q[k].number

C13_QueueNumbers(x) == [k \in DOMAIN x.prs |-> x.prs[k].number]

C13_AscendingOrderIsKept ==
    [][/\ C13_Ascending(S'.prs)
       /\ S.prs # <<>> => C13_QueueNumbers(S') = C13_QueueNumbers(S)
       /\ S'.i \in {S.i, S.i + 1}
       /\ Touched(S') \cup Recorded(S') \subseteq 1 .. S'.i]_vars

\* both items of a queue of two were processed, 101 before 102
C13_Witness ==
    /\ S.pc = "exit"
    /\ C13_QueueNumbers(S) = <<101, 102>>
    /\ Len(S.merged) = 1 /\ S.merged[1].number = 102
    /\ Len(S.skipped) = 1 /\ S.skipped[1].number = 101
    /\ Touched(S) = {1, 2}

(***************************************************************************)
(* C14.  At most one item is in progress (a gateway call has been made for *)
(* it and it is not yet recorded in merged or skipped), and it is the item *)
(* at the loop position.  Every gateway call of a step concerns the item   *)
(* at the loop position or the trunk (no item), never another item.        *)
(***************************************************************************)
C14_InProgress(x) == Touched(x) \ Recorded(x)

C14_OneItemAtATime ==
    /\ Cardinality(C14_InProgress(S)) <= 1
    /\ C14_InProgress(S) \subseteq {S.i}
    /\ \A k \in DOMAIN S.made :
           \/ S.made[k][2] = 0
           \/ S.i \in DOMAIN S.prs /\ S.made[k][2] = S.prs[S.i].number

\* the second item is refreshed after its branch update; the first is recorded
C14_Witness ==
    /\ S.pc = "evaluate"
    /\ S.i = 2
    /\ S.made = <<<<"gh pr view", S.prs[2].number>>>>
    /\ <<"gh pr update-branch", S.prs[2].number>> \in S.calls
    /\ Recorded(S) = {1}
    /\ C14_InProgress(S) = {2}

(***************************************************************************)
(* C15.  In the scenario of the queue 101, 102, 103, 104 (101 clean with a *)
(* healthy trunk, 102 BEHIND with a successful update and then merged, 103 *)
(* DIRTY) no gateway call is ever made for 104 and the loop never reaches  *)
(* it, and the session ends with merged = 101, 102, with skipped = 103 and *)
(* the merge-conflict reason, halted at 103, with exit status 2.           *)
(***************************************************************************)
C15_ScenarioOutcome ==
    /\ \A c \in S.calls : c[2] # 104
    /\ S.i <= 3
    /\ S.pc = "exit" =>
          /\ [k \in DOMAIN S.prs |-> S.prs[k].number] = ScenarioQueue
          /\ [k \in DOMAIN S.merged |-> S.merged[k].number] = <<101, 102>>
          /\ [k \in DOMAIN S.skipped |-> S.skipped[k].number] = <<103>>
          /\ S.skipped[1].reason = <<"Merge conflicts - manual resolution required">>
          /\ S.halted = 3 /\ S.fatal = "conflict"
          /\ S.exit_code = 2

\* the live session of the scenario at its end
C15_Witness ==
    /\ S.pc = "exit"
    /\ ~S.args.dry_run
    /\ S.exit_code = 2
    /\ {<<"gh pr merge", 101>>, <<"gh pr update-branch", 102>>, <<"gh pr merge", 102>>,
        <<"gh pr view", 103>>} \subseteq S.calls

(***************************************************************************)
(* C16.  When every item of the queue was fetched as a draft, the loop     *)
(* comes to the end of the queue without halting: nothing is merged, every *)
(* item is in skipped, in queue order, with the draft reason, no check,    *)
(* update or merge call was made, and the exit status is 1.                *)
(***************************************************************************)
C16_EveryItemIsDraft == S.prs # <<>> /\ S.drafts = DOMAIN S.prs

C16_AllDraftsEndWithOne ==
    C16_EveryItemIsDraft =>
        /\ S.halted = 0 /\ S.fatal = ""
        /\ S.merged = <<>>
        /\ S.i = Len(S.prs)
        /\ \A c \in S.calls :
               c[1] \notin {"gh pr checks", "gh pr update-branch", "gh pr merge"}
        /\ S.pc \in {"classify", "for", "generate_report", "exit"}
        /\ S.pc # "classify" =>
              /\ [k \in DOMAIN S.skipped |-> S.skipped[k].number]
                    = [k \in DOMAIN S.prs |-> S.prs[k].number]
              /\ \A k \in DOMAIN S.skipped : S.skipped[k].reason = <<"PR is a draft">>
        /\ S.pc = "exit" => S.exit_code = 1

\* a queue of two drafts, at the end of the session, the report written
C16_Witness ==
    /\ S.pc = "exit"
    /\ Len(S.prs) = 2
    /\ S.drafts = {1, 2}
    /\ Len(S.reports) = 1
    /\ S.exit_code = 1

(***************************************************************************)
(* C17.  A session that has exited has written exactly one session report, *)
(* on whichever path it exited: a failed preflight check, an empty         *)
(* discovery, a halted loop or an exhausted queue.                         *)
(***************************************************************************)
C17_OneReportOnEveryExit ==
    S.pc = "exit" => Len(S.reports) = 1

(***************************************************************************)
(* C17, as the code has it.  No report is written before the session       *)
(* exits, and never more than one.  A session that exits on a failed       *)
(* preflight check or on an empty discovery has written none; a session    *)
(* that has left the loop, halted or with the queue exhausted, has written *)
(* exactly one, unless writing it raised, and then none.                   *)
(***************************************************************************)
C17_OneReportAfterTheLoop ==
    /\ Len(S.reports) <= 1
    /\ S.pc # "exit" => S.reports = <<>>
    /\ S.pc = "exit" =>
          (Len(S.reports) = 1 <=> (S.prs # <<>> /\ S.raised = ""))
    /\ S.raised # "" => S.pc = "exit" /\ S.prs # <<>>

\* a session that halted on its first item of two and wrote its report
C17_Witness ==
    /\ S.pc = "exit"
    /\ S.halted = 1
    /\ Len(S.prs) = 2
    /\ Len(S.reports) = 1

(***************************************************************************)
(* C18.  A session report lists every item of the queue, in queue order,   *)
(* the items after the one the loop halted at included; and it tells the   *)
(* processed items from the ones never reached: an item has a row in the   *)
(* report's merged or skipped table exactly when the session made a        *)
(* gateway call for it, and an item after the halting one has none.        *)
(***************************************************************************)
C18_Rows(rep) ==
    {rep.merged[k] : k \in DOMAIN rep.merged} \cup {rep.skipped[k] : k \in DOMAIN rep.skipped}

C18_ReportListsWholeQueue ==
    \A n \in DOMAIN S.reports :
        /\ S.reports[n].prs = [k \in DOMAIN S.prs |-> S.prs[k].number]
        /\ \A k \in DOMAIN S.prs :
               /\ S.prs[k].number \in C18_Rows(S.reports[n]) <=> k \in Touched(S)
               /\ (S.halted # 0 /\ k > S.halted) =>
                     S.prs[k].number \notin C18_Rows(S.reports[n])

\* the report of a session that halted on 101 and never reached 102
C18_Witness ==
    /\ S.pc = "exit"
    /\ S.halted = 1
    /\ Len(S.reports) = 1
    /\ S.reports[1].prs = <<101, 102>>
    /\ C18_Rows(S.reports[1]) = {101}
    /\ Touched(S) = {1}

(***************************************************************************)
(* C19.  Writing the session report cannot change the result of the        *)
(* session: a session whose report write failed exits with the status its  *)
(* final merged and skipped lists give when the write succeeds, and is not *)
(* turned into a failure by the write.                                     *)
(***************************************************************************)
C19_ReportFailureKeepsResult ==
    (S.pc = "exit" /\ S.raised = "OSError") =>
        S.exit_code = ExitStatus(S.merged, S.skipped)

(***************************************************************************)
(* C20.  In live sessions started one after the other on the same host,    *)
(* no step invokes gh pr merge for a change request that the host already  *)
(* holds as MERGED: no change request is merged twice, whether it is left  *)
(* out of the list or listed again and found MERGED when it is fetched.    *)
(***************************************************************************)
C20_NeverMergesTheMerged ==
    [][\A k \in DOMAIN S'.made :
          S'.made[k][1] = "gh pr merge" => S'.made[k][2] \notin S.host]_vars

\* a later session: 101, merged by an earlier one, was listed again and skipped
\* as already merged, and 102 was merged
C20_Witness ==
    /\ S.pc = "exit"
    /\ S.host = {101, 102}
    /\ Len(S.skipped) = 1 /\ S.skipped[1].number = 101
    /\ S.skipped[1].reason = <<"Already merged">>
    /\ Len(S.merged) = 1 /\ S.merged[1].number = 102
    /\ <<"gh pr merge", 101>> \notin S.calls
    /\ <<"gh pr merge", 102>> \in S.calls

(***************************************************************************)
(* C21.  The only call a session repeats is the check query, and it        *)
(* repeats it only while the previous query gave the aggregate PENDING: a  *)
(* check query that failed at the gateway is not polled again.             *)
(***************************************************************************)
C21_RepollsOnlyWhilePending ==
    [][(S.pc = "check_status" /\ S'.pc = "wait_for_checks") =>
          S.status = "PENDING"]_vars

(***************************************************************************)
(* C22.  verify_main_health returns unhealthy only when the most recent    *)
(* pipeline run of the trunk is completed with a failed conclusion; with   *)
(* no run, a run not yet completed, a failed query and every other outcome *)
(* it returns healthy.                                                     *)
(***************************************************************************)
C22_RunListed(resp) ==
    resp.list.code = 0 /\ resp.list.parses /\ resp.list.runs # <<>>

C23_AtReview(x) ==
    x.pc = "evaluate" /\ x.merge_state # "DIRTY" /\ x.mergeable # "CONFLICTING"

C23_Decision(x) == Get(x.details, "reviewDecision", "")

C23_ReviewDecides ==
    [][C23_AtReview(S) =>
          /\ C23_Decision(S) \in {"CHANGES_REQUESTED", "REVIEW_REQUIRED"} =>
                /\ S'.pc = "generate_report" /\ S'.halted = S.i
                /\ Len(S'.skipped) = Len(S.skipped) + 1
                /\ S'.skipped[Len(S'.skipped)].number = S.prs[S.i].number
                /\ S'.skipped[Len(S'.skipped)].reason # <<>>
                /\ S'.merged = S.merged
                /\ \A c \in S'.calls :
                       c[2] = S.prs[S.i].number =>
                           c[1] \notin {"gh pr checks", "gh pr merge"}
          /\ C23_Decision(S) \in {"APPROVED", ""} =>
                /\ S'.pc = "wait_for_checks" /\ S'.halted = 0
                /\ S'.skipped = S.skipped /\ S'.merged = S.merged]_vars

\* the session is left at an item whose review is required
C23_Witness ==
    /\ S.pc = "generate_report"
    /\ S.fatal = "review"
    /\ C23_Decision(S) = "REVIEW_REQUIRED"
    /\ S.skipped[Len(S.skipped)].reason = <<"Review required - needs approval">>

(***************************************************************************)
(* C24.  When the loop is about to invoke the merge of an item, the        *)
(* gateway has answered, for that item: its first fetch succeeded and      *)
(* showed neither a draft nor a merged item, its mergeability as last      *)
(* fetched was neither DIRTY nor CONFLICTING, its review decision as last  *)
(* fetched was not blocking, and its latest check query gave SUCCESS.      *)
(***************************************************************************)
C24_MergeOnlyWhenReady ==
    S.pc = "merge_pr" =>
        /\ S.seen.fetched /\ ~S.seen.draft /\ ~S.seen.merged
        /\ ~S.seen.conflict
        /\ ~S.seen.blocking
        /\ S.seen.polled = "SUCCESS"

(***************************************************************************)
(* C25.  After a successful branch update the conflict decision and the    *)
(* review decision are taken on the re-fetched details: the item is        *)
(* skipped for a merge conflict, and the loop left, exactly when the       *)
(* re-fetched details show DIRTY or CONFLICTING (a value read before the   *)
(* update decides nothing), and otherwise it is stopped for its review     *)
(* exactly when the re-fetched review decision is blocking.                *)
(***************************************************************************)
C25_RefetchedSnapshotDecides ==
    [][(S.pc = "evaluate" /\ S.seen.update # <<>>) =>
          /\ S'.fatal = "conflict" <=> ShowsConflict(S.details)
          /\ ~ShowsConflict(S.details) =>
                (S'.fatal = "review" <=> ShowsBlockingReview(S.details))]_vars

(***************************************************************************)
(* C26.  When the branch update of a BEHIND item has failed, the item is   *)
(* the latest entry of skipped and the loop is left at it.  Its reason is  *)
(* the merge-conflict one when the failure text carries a conflict         *)
(* indication, and otherwise the failure text of the gateway as it is,     *)
(* after the words "Failed to update branch: ".  No check query and no     *)
(* merge has been made for the item.                                       *)
(***************************************************************************)
C26_UpdateFailed(x) == x.seen.update # <<>> /\ x.seen.update[1].code # 0

C26_Reason(resp) ==
    IF resp.stderr \in ConflictTexts
    THEN <<"Merge conflicts detected - manual resolution required">>
    ELSE <<"Failed to update branch: ", resp.stderr>>

C26_UpdateFailureHalts ==
    C26_UpdateFailed(S) =>
        /\ S.pc = "generate_report"
        /\ S.halted = S.i /\ S.fatal = "update"
        /\ S.skipped # <<>>
        /\ S.skipped[Len(S.skipped)].number = S.prs[S.i].number
        /\ S.skipped[Len(S.skipped)].reason = C26_Reason(S.seen.update[1])
        /\ S.prs[S.i].number \notin Numbers(S.merged)
        /\ \A c \in S.calls :
               c[2] = S.prs[S.i].number => c[1] \notin {"gh pr checks", "gh pr merge"}

\* the update of the second item failed with a conflict in its text
C26_Witness ==
    /\ C26_UpdateFailed(S)
    /\ S.i = 2
    /\ S.seen.update[1].stderr \in ConflictTexts
    /\ S.skipped[Len(S.skipped)].reason =
          <<"Merge conflicts detected - manual resolution required">>

(***************************************************************************)
(* C27: the poller returns a timeout failure only while the aggregate of   *)
(* the change request's checks is still PENDING, so never for a change     *)
(* request whose checks are all successful at the moment it returns.       *)
(***************************************************************************)
C27_Aggregate(x) == get_check_status(x.prs[x.i].number, Parsed("checks", x.runs)).status

C27_TimeoutOnlyWhilePending ==
    S.fatal = "timeout" => C27_Aggregate(S) = "PENDING"

(***************************************************************************)
(* C28: whatever the check runs do and whatever the queries answer, the    *)
(* poller has slept at most the timeout plus one poll interval, and it     *)
(* returns.                                                                *)
(***************************************************************************)
C28_PollerTerminates ==
    /\ [](S.clock <= timeout_seconds(S) + poll_interval)
    /\ <>(~Polling(S))

\* the poller gave up on a change request whose last query failed
C28_Witness ==
    /\ ~Polling(S)
    /\ S.fatal = "timeout"
    /\ S.seen.polled = "UNKNOWN"

(***************************************************************************)
(* C29: when the poller returns failure because the aggregate is FAILURE,  *)
(* its message names every check whose conclusion is FAILURE, ERROR,       *)
(* CANCELLED or TIMED_OUT, so at least one check is named.                 *)
(***************************************************************************)
C29_Culprits(checks) ==
    LET failed == SelectSeq(checks, LAMBDA c : c.conclusion \in FailureConclusions)
    IN  [k \in DOMAIN failed |-> failed[k].name]

C29_FailureNamesItsChecks ==
    S.fatal = "checks" =>
        /\ C29_Culprits(S.runs) # <<>>
        /\ S.skipped[Len(S.skipped)].reason = <<"Checks failed: ">> \o C29_Culprits(S.runs)

(***************************************************************************)
(* C30: when the first fetch of an item's details fails, the item is       *)
(* appended to skipped with the reason "Failed to fetch PR details", the   *)
(* only gateway call made for it is that fetch, and the loop goes on to    *)
(* the next queued item without halting.                                   *)
(***************************************************************************)
C30_FetchFailed(x) == x.seen.asked /\ ~x.seen.fetched /\ x.pc # "classify"

C30_CallsFor(x) == {c \in x.calls : c[2] = x.prs[x.i].number}

C30_FetchFailureSkipsAndContinues ==
    C30_FetchFailed(S) =>
        /\ S.pc = "for"
        /\ S.halted = 0 /\ S.fatal = ""
        /\ S.skipped # <<>>
        /\ S.skipped[Len(S.skipped)] =
              [number |-> S.prs[S.i].number,
               reason |-> <<"Failed to fetch PR details">>, result |-> Absent]
        /\ S.prs[S.i].number \notin Numbers(S.merged)
        /\ C30_CallsFor(S) = {<<"gh pr view", S.prs[S.i].number>>}
        /\ S.made = <<>>

\* the first item's fetch failed and a second item is queued
C30_Witness ==
    /\ C30_FetchFailed(S)
    /\ S.i = 1
    /\ Len(S.prs) = 2

(***************************************************************************)
(* C31: when a positive limit n is set and more than n items are           *)
(* discovered, the queue holds exactly the n discovered items with the     *)
(* smallest numbers, and no other discovered item is fetched, merged,      *)
(* skipped or listed in the report.                                        *)
(***************************************************************************)
C31_Truncated(x) == x.args.limit > 0 /\ Cardinality(x.found) > x.args.limit

C31_CutOff(x) == x.found \ Numbers(x.prs)

C31_Reported(x) ==
    UNION {{rep.prs[k] : k \in DOMAIN rep.prs}
           \cup {rep.merged[k] : k \in DOMAIN rep.merged}
           \cup {rep.skipped[k] : k \in DOMAIN rep.skipped} :
           rep \in {x.reports[j] : j \in DOMAIN x.reports}}

C31_LimitKeepsTheSmallest ==
    C31_Truncated(S) =>
        /\ Len(S.prs) = S.args.limit
        /\ Numbers(S.prs) \subseteq S.found
        /\ \A p \in Numbers(S.prs), q \in C31_CutOff(S) : p < q
        /\ \A c \in S.calls : c[2] \notin C31_CutOff(S)
        /\ (Numbers(S.merged) \cup Numbers(S.skipped)) \cap C31_CutOff(S) = {}
        /\ C31_Reported(S) \cap C31_CutOff(S) = {}

\* a session limited to one item has merged it, reported and exited
C31_Witness ==
    /\ C31_Truncated(S)
    /\ S.pc = "exit"
    /\ Len(S.merged) = 1
    /\ Len(S.reports) = 1

(***************************************************************************)
(* C32: in dry-run the merge step always succeeds, issues no gh pr merge   *)
(* and records the item in merged with result "would merge"; a merge       *)
(* failure happens only in a live session, where the item is appended to   *)
(* skipped with the failure message and the loop halts.                    *)
(***************************************************************************)
C32_MergeCalls(x) == {c \in x.calls : c[1] = "gh pr merge"}

C32_DryRunMergeIsSimulated ==
    /\ S.args.dry_run =>
          /\ C32_MergeCalls(S) = {}
          /\ S.fatal # "merge"
          /\ \A k \in DOMAIN S.merged : S.merged[k].result = "would merge"
    /\ S.pc = "verify_main_health" =>
          /\ S.merged # <<>>
          /\ S.merged[Len(S.merged)] =
                [number |-> S.prs[S.i].number, reason |-> <<>>,
                 result |-> IF S.args.dry_run THEN "would merge" ELSE "merged"]
    /\ S.fatal = "merge" =>
          /\ ~S.args.dry_run
          /\ LoopLeft(S) /\ S.halted = S.i
          /\ S.skipped # <<>>
          /\ S.skipped[Len(S.skipped)].number = S.prs[S.i].number
          /\ S.skipped[Len(S.skipped)].reason[1] = "Merge failed: "
          /\ S.prs[S.i].number \notin Numbers(S.merged)

\* a dry-run session has just passed the merge step of its second item
C32_Witness ==
    /\ S.args.dry_run
    /\ S.pc = "verify_main_health"
    /\ S.i = 2
    /\ Len(S.merged) = 2

(***************************************************************************)
(* C33: the poller returns success only on a poll whose query succeeded    *)
(* and gave the aggregate SUCCESS.  A query that fails gives neither       *)
(* success nor a failure at once: the poller sleeps and polls again, and   *)
(* after such an answer it can only return the timeout.                    *)
(***************************************************************************)
C33_Answered(x) == get_check_status(x.prs[x.i].number, Parsed("checks", x.runs)).status

C33_SuccessNeedsAnAnsweredQuery ==
    /\ S.pc = "merge_pr" => S.seen.polled = "SUCCESS" /\ C33_Answered(S) = "SUCCESS"
    /\ S.fatal = "checks" => S.seen.polled = "FAILURE"
    /\ S.seen.polled = "UNKNOWN" =>
          \/ S.pc = "check_status" /\ S.status = "UNKNOWN"
          \/ S.pc = "wait_for_checks" /\ S.clock >= poll_interval /\ S.skipped = <<>>
          \/ S.fatal = "timeout"

\* the poller has slept after a query that failed
C33_Witness ==
    /\ S.pc = "wait_for_checks"
    /\ S.seen.polled = "UNKNOWN"
    /\ S.clock = poll_interval
    /\ C33_Answered(S) = "SUCCESS"

(***************************************************************************)
(* C34: when the fetch that follows a successful branch update fails, the  *)
(* item is not skipped: it is evaluated with merge state UNKNOWN and no    *)
(* review decision, passes the review step and goes on to its checks.      *)
(***************************************************************************)
C34_RefetchFailed(x) == x.pc = "evaluate" /\ x.seen.update # <<>> /\ x.details = <<>>

C34_FailedRefetchGoesOn ==
    [][C34_RefetchFailed(S) =>
          /\ S.merge_state = "UNKNOWN"
          /\ check_review_approval(S.details).approved
          /\ S'.pc = "wait_for_checks"
          /\ S'.skipped = S.skipped
          /\ S'.halted = 0]_vars

(***************************************************************************)
(* C35: gh pr update-branch is issued at most once per item, and only for  *)
(* an item whose first fetch gave the merge state BEHIND.  An item that is *)
(* still BEHIND after the refresh is not updated again: when the refresh   *)
(* shows no conflict, its review decision is what happens next.            *)
(***************************************************************************)
C35_Updates(made) == {k \in DOMAIN made : made[k][1] = "gh pr update-branch"}

C35_StillBehind(x) == x.pc = "evaluate" /\ x.seen.update # <<>> /\ x.merge_state = "BEHIND"

C35_UpdatesOnceWhenBehind ==
    [][/\ C35_Updates(S'.made) # {} =>
             /\ S.pc = "update_pr_branch"
             /\ S.seen.update = <<>>
             /\ Get(S.details, "mergeStateStatus", "UNKNOWN") = "BEHIND"
             /\ S'.made = <<<<"gh pr update-branch", S.prs[S.i].number>>>>
       /\ C35_StillBehind(S) =>
             /\ S'.pc # "update_pr_branch"
             /\ C35_Updates(S'.made) = {}
             /\ ~S.seen.conflict =>
                   \/ S'.pc = "wait_for_checks" /\ check_review_approval(S.details).approved
                   \/ S'.fatal = "review" /\ ~check_review_approval(S.details).approved]_vars

(***************************************************************************)
(* C36: an open, non-draft item whose merge state is neither BEHIND nor    *)
(* DIRTY and whose mergeable flag is not CONFLICTING is never skipped or   *)
(* halted for its merge state: it reaches the review step, whose decision  *)
(* alone sends it on to the checks or stops the loop.                      *)
(***************************************************************************)
C36_Unremarkable(d) ==
    /\ d # <<>>
    /\ ~Get(d, "isDraft", FALSE)
    /\ Get(d, "state", Absent) # "MERGED"
    /\ Get(d, "mergeStateStatus", "UNKNOWN") \notin {"BEHIND", "DIRTY"}
    /\ Get(d, "mergeable", "UNKNOWN") # "CONFLICTING"

C36_OtherMergeStatesPass ==
    [][/\ (S.pc = "classify" /\ C36_Unremarkable(S.details)) =>
             /\ S'.pc = "evaluate"
             /\ S'.skipped = S.skipped /\ S'.halted = 0
       /\ (S.pc = "evaluate" /\ S.seen.update = <<>> /\ C36_Unremarkable(S.details)) =>
             \/ /\ check_review_approval(S.details).approved
                /\ S'.pc = "wait_for_checks"
                /\ S'.skipped = S.skipped /\ S'.halted = 0
             \/ /\ ~check_review_approval(S.details).approved
                /\ S'.fatal = "review"]_vars

\* the second item, in merge state UNKNOWN, has come to the review step
C36_Witness ==
    /\ S.pc = "evaluate"
    /\ S.seen.update = <<>>
    /\ C36_Unremarkable(S.details)
    /\ S.merge_state = "UNKNOWN"
    /\ S.i = 2

(***************************************************************************)
(* C37: when discovery returns no item (nothing matches, the list call     *)
(* fails or its output cannot be parsed), the session exits with status 0  *)
(* and has fetched, evaluated and merged no change request.                *)
(***************************************************************************)
C37_NothingDiscovered(x) == <<"gh pr list", 0>> \in x.calls /\ x.prs = <<>>

C37_EmptyDiscoveryExitsZero ==
    C37_NothingDiscovered(S) =>
        /\ S.pc = "exit"
        /\ S.exit_code = 0
        /\ \A c \in S.calls : c[2] = 0
        /\ S.calls \subseteq {<<"gh auth status", 0>>, <<"git status", 0>>,
                               <<"git fetch", 0>>, <<"gh pr list", 0>>}
        /\ S.i = 0
        /\ S.merged = <<>> /\ S.skipped = <<>>
        /\ S.reports = <<>>

\* a session restricted to a label ended on an empty discovery
C37_Witness ==
    /\ C37_NothingDiscovered(S)
    /\ S.pc = "exit"
    /\ S.args.session # ""
    /\ S.made = <<<<"gh pr list", 0>>>>

(***************************************************************************)
(* C38: after every successful merge step, in dry-run as in a live         *)
(* session, the next thing the session does is the trunk health query; an  *)
(* unhealthy result halts the loop at that item, a healthy one lets the    *)
(* loop go on.                                                             *)
(***************************************************************************)
C38_MergeStepDone(x, y) ==
    /\ x.pc = "merge_pr"
    /\ Len(y.merged) = Len(x.merged) + 1

C38_HealthQueryAfterEveryMerge ==
    [][/\ C38_MergeStepDone(S, S') => S'.pc = "verify_main_health"
       /\ S.pc = "verify_main_health" =>
             /\ Len(S'.made) >= 2
             /\ S'.made[1] = <<"git fetch", 0>>
             /\ S'.made[2] = <<"git rev-parse", 0>>
             /\ S'.merged = S.merged /\ S'.skipped = S.skipped
             /\ ~S'.healthy =>
                   /\ S'.pc = "generate_report"
                   /\ S'.halted = S.i /\ S'.fatal = "trunk"
             /\ S'.healthy => S'.pc = "for" /\ S'.halted = 0]_vars

\* a dry-run session is over: the trunk was found unhealthy after the simulated
\* merge of the first of two items, and no merge command was issued
C38_Witness ==
    /\ S.args.dry_run
    /\ S.pc = "exit"
    /\ ~S.healthy
    /\ S.fatal = "trunk" /\ S.halted = 1
    /\ Len(S.prs) = 2
    /\ S.merged[1].result = "would merge"
    /\ <<"git rev-parse", 0>> \in S.calls
    /\ \A c \in S.calls : c[1] # "gh pr merge"

====
